---- MODULE Spec2Model ----
(***************************************************************************)
(* Hangman: the round state machine of game/engine.py (play_game and the   *)
(* guess handlers), with the stats accumulator that main.py threads        *)
(* through it.  Strings are sequences of one-character strings, so that    *)
(* len(), iteration, `in`, strip(), lower() and isalpha() are computed.    *)
(***************************************************************************)
EXTENDS Integers, Sequences, FiniteSets, TLC

VARIABLES
    all_words,    \* get_random_word: the words loaded for the chosen category
    state,        \* play_game: the game state dictionary
    user_input,   \* play_game: the last token read, stripped and lowercased
    score,        \* play_game: the score of the round
    stats,        \* main: the statistics dictionary passed to play_game
    pc            \* position in play_game

vars == <<all_words, state, user_input, score, stats, pc>>

----------------------------------------------------------------------------
(* Characters and strings *)

LowerLetters == {"a", "b", "i", "q", "t", "u", "x", "y", "z"}

UpperLetters == {"A", "B", "Q", "U", "I", "T"}

\* str.lower() on one character
lower_char(c) ==
    CASE c = "A" -> "a"
      [] c = "B" -> "b"
      [] c = "Q" -> "q"
      [] c = "U" -> "u"
      [] c = "I" -> "i"
      [] c = "T" -> "t"
      [] OTHER -> c

\* str.lower()
lower(s) == [i \in 1..Len(s) |-> lower_char(s[i])]

\* str.isalpha(): non-empty and every character alphabetic
isalpha(s) == Len(s) > 0 /\ \A i \in 1..Len(s) : s[i] \in LowerLetters \cup UpperLetters

RECURSIVE lstrip(_)
lstrip(s) == IF Len(s) > 0 /\ Head(s) = " " THEN lstrip(Tail(s)) ELSE s

RECURSIVE rstrip(_)
rstrip(s) == IF Len(s) > 0 /\ s[Len(s)] = " " THEN rstrip(SubSeq(s, 1, Len(s) - 1)) ELSE s

\* str.strip()
strip(s) == rstrip(lstrip(s))

\* set(str): the set of the characters of a string
set(s) == {s[i] : i \in 1..Len(s)}

\* `sub in s` on strings: substring test
contains(s, sub) == \E i \in 1..(Len(s) - Len(sub) + 1) : SubSeq(s, i, i + Len(sub) - 1) = sub

\* max(0, n)
max(a, b) == IF a >= b THEN a ELSE b

\* the literals of the f-strings "WORD:{guess}" and "MULTI:{letters}"
WORD_PREFIX == <<"W", "O", "R", "D", ":">>

MULTI_PREFIX == <<"M", "U", "L", "T", "I", ":">>

\* the quit token of the game loop
QUIT == <<"q", "u", "i", "t">>

----------------------------------------------------------------------------
(* game/engine.py *)

initialize_game_state(word) ==
    [ word            |-> lower(word),
      guessed_letters |-> {},
      correct_letters |-> {},
      wrong_guesses   |-> <<>>,
      wrong_count     |-> 0,
      max_wrong       |-> 6,
      game_won        |-> FALSE,
      game_lost       |-> FALSE,
      guess_log       |-> <<>> ]

\* check_win comparing sizes instead of sets
check_win_by_length(st) == Len(st.word) = Cardinality(st.correct_letters)

check_win(st) == set(st.word) = st.correct_letters

\* handle_single_letter revealing the letter before testing it
handle_single_letter_reveals_all(st, letter) ==
    IF letter[1] \in st.guessed_letters
    THEN st
    ELSE LET s1 == [st EXCEPT !.guessed_letters = @ \cup {letter[1]},
                              !.correct_letters = @ \cup {letter[1]}] IN
         IF contains(s1.word, letter)
         THEN LET s2 == [s1 EXCEPT !.guess_log = Append(@, <<letter, TRUE>>)] IN
              IF check_win(s2) THEN [s2 EXCEPT !.game_won = TRUE] ELSE s2
         ELSE LET s2 == [s1 EXCEPT !.wrong_guesses = Append(@, letter),
                                   !.wrong_count = @ + 1,
                                   !.guess_log = Append(@, <<letter, FALSE>>)] IN
              IF s2.wrong_count >= s2.max_wrong THEN [s2 EXCEPT !.game_lost = TRUE] ELSE s2

\* handle_single_letter without the already-guessed test
handle_single_letter_no_repeat_test(st, letter) ==
    LET s1 == [st EXCEPT !.guessed_letters = @ \cup {letter[1]}] IN
    IF contains(s1.word, letter)
    THEN LET s2 == [s1 EXCEPT !.correct_letters = @ \cup {letter[1]},
                              !.guess_log = Append(@, <<letter, TRUE>>)] IN
         IF check_win(s2) THEN [s2 EXCEPT !.game_won = TRUE] ELSE s2
    ELSE LET s2 == [s1 EXCEPT !.wrong_guesses = Append(@, letter),
                              !.wrong_count = @ + 1,
                              !.guess_log = Append(@, <<letter, FALSE>>)] IN
         IF s2.wrong_count >= s2.max_wrong THEN [s2 EXCEPT !.game_lost = TRUE] ELSE s2

\* handle_single_letter testing the loss with > instead of >=
handle_single_letter_loss_gt(st, letter) ==
    IF letter[1] \in st.guessed_letters
    THEN st
    ELSE LET s1 == [st EXCEPT !.guessed_letters = @ \cup {letter[1]}] IN
         IF contains(s1.word, letter)
         THEN LET s2 == [s1 EXCEPT !.correct_letters = @ \cup {letter[1]},
                                   !.guess_log = Append(@, <<letter, TRUE>>)] IN
              IF check_win(s2) THEN [s2 EXCEPT !.game_won = TRUE] ELSE s2
         ELSE LET s2 == [s1 EXCEPT !.wrong_guesses = Append(@, letter),
                                   !.wrong_count = @ + 1,
                                   !.guess_log = Append(@, <<letter, FALSE>>)] IN
              IF s2.wrong_count > s2.max_wrong THEN [s2 EXCEPT !.game_lost = TRUE] ELSE s2

\* handle_single_letter; letter is a string of length 1
handle_single_letter(st, letter) ==
    IF letter[1] \in st.guessed_letters
    THEN st
    ELSE LET s1 == [st EXCEPT !.guessed_letters = @ \cup {letter[1]}] IN
         IF contains(s1.word, letter)
         THEN LET s2 == [s1 EXCEPT !.correct_letters = @ \cup {letter[1]},
                                   !.guess_log = Append(@, <<letter, TRUE>>)] IN
              IF check_win(s2) THEN [s2 EXCEPT !.game_won = TRUE] ELSE s2
         ELSE LET s2 == [s1 EXCEPT !.wrong_guesses = Append(@, letter),
                                   !.wrong_count = @ + 1,
                                   !.guess_log = Append(@, <<letter, FALSE>>)] IN
              IF s2.wrong_count >= s2.max_wrong THEN [s2 EXCEPT !.game_lost = TRUE] ELSE s2

\* the for loop of handle_multiple_letters from character i on; acc carries
\* the state and the new_correct list
RECURSIVE multiple_letters_loop(_, _, _)
multiple_letters_loop(acc, letters, i) ==
    IF i > Len(letters)
    THEN acc
    ELSE LET letter == letters[i]
             st == acc.st IN
         IF letter \in st.guessed_letters
         THEN multiple_letters_loop(acc, letters, i + 1)
         ELSE LET s1 == [st EXCEPT !.guessed_letters = @ \cup {letter}] IN
              IF contains(s1.word, <<letter>>)
              THEN multiple_letters_loop(
                       [st |-> [s1 EXCEPT !.correct_letters = @ \cup {letter}],
                        new_correct |-> Append(acc.new_correct, letter)],
                       letters, i + 1)
              ELSE multiple_letters_loop(
                       [st |-> [s1 EXCEPT !.wrong_guesses = Append(@, <<letter>>),
                                          !.wrong_count = @ + 1],
                        new_correct |-> acc.new_correct],
                       letters, i + 1)

\* handle_multiple_letters testing the loss with `if` instead of `elif`
handle_multiple_letters_if_lost(st, letters) ==
    LET r  == multiple_letters_loop([st |-> st, new_correct |-> <<>>], letters, 1)
        s1 == [r.st EXCEPT !.guess_log =
                   Append(@, <<MULTI_PREFIX \o letters, Len(r.new_correct) > 0>>)]
        s2 == IF check_win(s1) THEN [s1 EXCEPT !.game_won = TRUE] ELSE s1 IN
    IF s2.wrong_count >= s2.max_wrong THEN [s2 EXCEPT !.game_lost = TRUE] ELSE s2

\* handle_multiple_letters counting one wrong attempt for the whole token
handle_multiple_letters_one_penalty(st, letters) ==
    LET r  == multiple_letters_loop([st |-> st, new_correct |-> <<>>], letters, 1)
        s1 == [r.st EXCEPT !.wrong_count =
                   IF @ > st.wrong_count THEN st.wrong_count + 1 ELSE @,
                           !.guess_log =
                   Append(@, <<MULTI_PREFIX \o letters, Len(r.new_correct) > 0>>)] IN
    IF check_win(s1) THEN [s1 EXCEPT !.game_won = TRUE]
    ELSE IF s1.wrong_count >= s1.max_wrong THEN [s1 EXCEPT !.game_lost = TRUE]
    ELSE s1

\* handle_multiple_letters logging true when any letter of the token is in
\* the word, new or not
handle_multiple_letters_outcome_any(st, letters) ==
    LET r  == multiple_letters_loop([st |-> st, new_correct |-> <<>>], letters, 1)
        s1 == [r.st EXCEPT !.guess_log =
                   Append(@, <<MULTI_PREFIX \o letters,
                               \E i \in 1..Len(letters) : contains(st.word, <<letters[i]>>)>>)] IN
    IF check_win(s1) THEN [s1 EXCEPT !.game_won = TRUE]
    ELSE IF s1.wrong_count >= s1.max_wrong THEN [s1 EXCEPT !.game_lost = TRUE]
    ELSE s1

\* handle_multiple_letters testing the loss before the win
handle_multiple_letters_loss_first(st, letters) ==
    LET r  == multiple_letters_loop([st |-> st, new_correct |-> <<>>], letters, 1)
        s1 == [r.st EXCEPT !.guess_log =
                   Append(@, <<MULTI_PREFIX \o letters, Len(r.new_correct) > 0>>)] IN
    IF s1.wrong_count >= s1.max_wrong THEN [s1 EXCEPT !.game_lost = TRUE]
    ELSE IF check_win(s1) THEN [s1 EXCEPT !.game_won = TRUE]
    ELSE s1

\* handle_multiple_letters logging only a token that brought a new letter
handle_multiple_letters_log_new_only(st, letters) ==
    LET r  == multiple_letters_loop([st |-> st, new_correct |-> <<>>], letters, 1)
        s1 == IF r.st.guessed_letters = st.guessed_letters
              THEN r.st
              ELSE [r.st EXCEPT !.guess_log =
                       Append(@, <<MULTI_PREFIX \o letters, Len(r.new_correct) > 0>>)] IN
    IF check_win(s1) THEN [s1 EXCEPT !.game_won = TRUE]
    ELSE IF s1.wrong_count >= s1.max_wrong THEN [s1 EXCEPT !.game_lost = TRUE]
    ELSE s1

handle_multiple_letters(st, letters) ==
    LET r  == multiple_letters_loop([st |-> st, new_correct |-> <<>>], letters, 1)
        s1 == [r.st EXCEPT !.guess_log =
                   Append(@, <<MULTI_PREFIX \o letters, Len(r.new_correct) > 0>>)] IN
    IF check_win(s1) THEN [s1 EXCEPT !.game_won = TRUE]
    ELSE IF s1.wrong_count >= s1.max_wrong THEN [s1 EXCEPT !.game_lost = TRUE]
    ELSE s1

\* handle_full_word appending the wrong word without counting it
handle_full_word_uncounted(st, guess) ==
    IF lower(guess) = st.word
    THEN [st EXCEPT !.correct_letters = set(st.word),
                    !.guessed_letters = set(st.word),
                    !.game_won = TRUE,
                    !.guess_log = Append(@, <<WORD_PREFIX \o guess, TRUE>>)]
    ELSE LET s1 == [st EXCEPT !.wrong_guesses = Append(@, WORD_PREFIX \o guess),
                              !.guess_log = Append(@, <<WORD_PREFIX \o guess, FALSE>>)] IN
         IF s1.wrong_count >= s1.max_wrong THEN [s1 EXCEPT !.game_lost = TRUE] ELSE s1

\* handle_full_word without the loss test after a wrong word
handle_full_word_no_loss_test(st, guess) ==
    IF lower(guess) = st.word
    THEN [st EXCEPT !.correct_letters = set(st.word),
                    !.guessed_letters = set(st.word),
                    !.game_won = TRUE,
                    !.guess_log = Append(@, <<WORD_PREFIX \o guess, TRUE>>)]
    ELSE [st EXCEPT !.wrong_guesses = Append(@, WORD_PREFIX \o guess),
                    !.wrong_count = @ + 1,
                    !.guess_log = Append(@, <<WORD_PREFIX \o guess, FALSE>>)]

\* handle_full_word winning without revealing the letters of the word
handle_full_word_no_reveal(st, guess) ==
    IF lower(guess) = st.word
    THEN [st EXCEPT !.game_won = TRUE,
                    !.guess_log = Append(@, <<WORD_PREFIX \o guess, TRUE>>)]
    ELSE LET s1 == [st EXCEPT !.wrong_guesses = Append(@, WORD_PREFIX \o guess),
                              !.wrong_count = @ + 1,
                              !.guess_log = Append(@, <<WORD_PREFIX \o guess, FALSE>>)] IN
         IF s1.wrong_count >= s1.max_wrong THEN [s1 EXCEPT !.game_lost = TRUE] ELSE s1

\* handle_full_word marking the letters of a wrong word as guessed
handle_full_word_marks_letters(st, guess) ==
    IF lower(guess) = st.word
    THEN [st EXCEPT !.correct_letters = set(st.word),
                    !.guessed_letters = set(st.word),
                    !.game_won = TRUE,
                    !.guess_log = Append(@, <<WORD_PREFIX \o guess, TRUE>>)]
    ELSE LET s1 == [st EXCEPT !.guessed_letters = @ \cup set(guess),
                              !.wrong_guesses = Append(@, WORD_PREFIX \o guess),
                              !.wrong_count = @ + 1,
                              !.guess_log = Append(@, <<WORD_PREFIX \o guess, FALSE>>)] IN
         IF s1.wrong_count >= s1.max_wrong THEN [s1 EXCEPT !.game_lost = TRUE] ELSE s1

\* handle_full_word revealing the word without marking its letters as guessed
handle_full_word_guessed_kept(st, guess) ==
    IF lower(guess) = st.word
    THEN [st EXCEPT !.correct_letters = set(st.word),
                    !.game_won = TRUE,
                    !.guess_log = Append(@, <<WORD_PREFIX \o guess, TRUE>>)]
    ELSE LET s1 == [st EXCEPT !.wrong_guesses = Append(@, WORD_PREFIX \o guess),
                              !.wrong_count = @ + 1,
                              !.guess_log = Append(@, <<WORD_PREFIX \o guess, FALSE>>)] IN
         IF s1.wrong_count >= s1.max_wrong THEN [s1 EXCEPT !.game_lost = TRUE] ELSE s1

handle_full_word(st, guess) ==
    IF lower(guess) = st.word
    THEN [st EXCEPT !.correct_letters = set(st.word),
                    !.guessed_letters = set(st.word),
                    !.game_won = TRUE,
                    !.guess_log = Append(@, <<WORD_PREFIX \o guess, TRUE>>)]
    ELSE LET s1 == [st EXCEPT !.wrong_guesses = Append(@, WORD_PREFIX \o guess),
                              !.wrong_count = @ + 1,
                              !.guess_log = Append(@, <<WORD_PREFIX \o guess, FALSE>>)] IN
         IF s1.wrong_count >= s1.max_wrong THEN [s1 EXCEPT !.game_lost = TRUE] ELSE s1

\* process_guess rejecting the empty token only
process_guess_nonempty_only(st, guess) ==
    IF Len(guess) = 0
    THEN st
    ELSE LET g == lower(guess) IN
         IF Len(g) = 1 THEN handle_single_letter(st, g)
         ELSE IF Len(g) = Len(st.word) THEN handle_full_word(st, g)
         ELSE handle_multiple_letters(st, g)

process_guess(st, guess) ==
    IF ~isalpha(guess)
    THEN st
    ELSE LET g == lower(guess) IN
         IF Len(g) = 1 THEN handle_single_letter(st, g)
         ELSE IF Len(g) = Len(st.word) THEN handle_full_word(st, g)
         ELSE handle_multiple_letters(st, g)

\* calculate_score without the max(0, ...) clamp
calculate_score_unclamped(st) ==
    IF ~st.game_won
    THEN 0
    ELSE LET base    == Len(st.word) * 10
             penalty == st.wrong_count * 5 IN
         base - penalty

calculate_score(st) ==
    IF ~st.game_won
    THEN 0
    ELSE LET base    == Len(st.word) * 10
             penalty == st.wrong_count * 5 IN
         max(0, base - penalty)

\* update_stats counting the game only when it is won
update_stats_played_on_win(sts, st, sc) ==
    IF st.game_won
    THEN [sts EXCEPT !.games_played = @ + 1, !.wins = @ + 1, !.total_score = @ + sc]
    ELSE [sts EXCEPT !.losses = @ + 1]

\* play_game, lines 194-199: the stats after a round
update_stats(sts, st, sc) ==
    LET s1 == [sts EXCEPT !.games_played = @ + 1] IN
    IF st.game_won
    THEN [s1 EXCEPT !.wins = @ + 1, !.total_score = @ + sc]
    ELSE [s1 EXCEPT !.losses = @ + 1]

\* quit recorded as a wrong guess
quit_round_counted(st) ==
    [st EXCEPT !.game_lost = TRUE,
               !.wrong_guesses = Append(@, QUIT),
               !.wrong_count = @ + 1]

\* play_game, lines 186-189: the quit token forces a loss
quit_round(st) == [st EXCEPT !.game_lost = TRUE]

\* play_game, line 181: the condition of the game loop
loop_continues(st) == ~st.game_won /\ ~st.game_lost

----------------------------------------------------------------------------
(* Inputs *)

\* the longest guess_log a round is followed to
MaxLog == 3

\* the word lists a category can hold: lines of a category file, lowercased
Words == { <<"a">>, <<"a", "b", "a">>, <<"q", "u", "i", "t">> }

WordLists == { {}, Words }

\* what the player types at "Your guess: ", before strip() and lower()
RawInputs ==
    { <<"a">>, <<"b">>, <<"x">>, <<"q">>,
      <<"A">>, <<" ", "b", " ">>,
      <<"a", "b">>, <<"a", "a">>,
      <<"a", "b", "a">>, <<"x", "y", "z">>, <<"u", "i", "t">>,
      <<"a", "b", "t", "i">>, <<"t", "i", "u", "q">>,
      <<"x", "y", "z", "q", "u">>,
      <<"q", "u", "i", "t">>, <<"Q", "U", "I", "T">>,
      <<>>, <<" ">>, <<"1">>, <<"a", "!">>, <<"a", " ", "b">> }

\* load_stats: the default statistics, or the ones of the stats file
default_stats == [games_played |-> 0, wins |-> 0, losses |-> 0, total_score |-> 0]

LoadedStats ==
    { default_stats,
      [games_played |-> 3, wins |-> 2, losses |-> 1, total_score |-> 25],
      [games_played |-> 1, wins |-> 0, losses |-> 0, total_score |-> -5] }

\* the value of `state` before initialize_game_state has run
NoState ==
    [ word            |-> <<>>,
      guessed_letters |-> {},
      correct_letters |-> {},
      wrong_guesses   |-> <<>>,
      wrong_count     |-> 0,
      max_wrong       |-> 0,
      game_won        |-> FALSE,
      game_lost       |-> FALSE,
      guess_log       |-> <<>> ]

----------------------------------------------------------------------------
(* main.py and play_game *)

Init ==
    /\ all_words \in WordLists
    /\ stats \in LoadedStats
    /\ state = NoState
    /\ user_input = <<>>
    /\ score = 0
    /\ pc = "start"

\* play_game, lines 174-178: a word is drawn and the state initialised
StartRound ==
    /\ pc = "start"
    /\ all_words # {}
    /\ \E word \in all_words : state' = initialize_game_state(word)
    /\ pc' = "loop"
    /\ UNCHANGED <<all_words, user_input, score, stats>>

\* play_game, lines 174-177: get_random_word returned None and
\* initialize_game_state raises on None.lower()
StartRoundNoWord ==
    /\ pc = "start"
    /\ all_words = {}
    /\ pc' = "raised"
    /\ UNCHANGED <<all_words, state, user_input, score, stats>>

\* play_game, lines 181-190: one iteration of the loop on a guess
Guess(raw) ==
    /\ pc = "loop"
    /\ Len(state.guess_log) < MaxLog
    /\ LET token == lower(strip(raw)) IN
         /\ token # QUIT
         /\ user_input' = token
         /\ state' = process_guess(state, token)
    /\ pc' = IF loop_continues(state') THEN "loop" ELSE "score"
    /\ UNCHANGED <<all_words, score, stats>>

\* play_game, lines 185-189: one iteration of the loop on the quit token
Quit(raw) ==
    /\ pc = "loop"
    /\ LET token == lower(strip(raw)) IN
         /\ token = QUIT
         /\ user_input' = token
    /\ state' = quit_round(state)
    /\ pc' = "score"
    /\ UNCHANGED <<all_words, score, stats>>

\* play_game, lines 193-199: the score and the stats of the round
Finish ==
    /\ pc = "score"
    /\ score' = calculate_score(state)
    /\ stats' = update_stats(stats, state, score')
    /\ pc' = "done"
    /\ UNCHANGED <<all_words, state, user_input>>

Next ==
    \/ StartRound
    \/ StartRoundNoWord
    \/ \E raw \in RawInputs : Guess(raw)
    \/ \E raw \in RawInputs : Quit(raw)
    \/ Finish

Spec == Init /\ [][Next]_vars

\* the round has started: `state` is the dictionary of initialize_game_state
InRound == pc \in {"loop", "score", "done"}

----------------------------------------------------------------------------
(* Properties *)

\* the last entry of a non-empty sequence
Last(seq) == seq[Len(seq)]

\* a step of the game loop that passes the token read to process_guess
GuessStep == pc = "loop" /\ user_input' # QUIT

\* C1: in every reachable state of a round, whatever the guesses and also
\* after quit, wrong_count equals the number of entries of wrong_guesses.
Thm_C1 == InRound => state.wrong_count = Len(state.wrong_guesses)

\* a round with a wrong letter, a wrong word and a multi-letter miss, ended by quit
Wit_C1 ==
    /\ pc = "score"
    /\ user_input = QUIT
    /\ state.wrong_count >= 3
    /\ \E i \in 1..Len(state.wrong_guesses) :
           Len(state.wrong_guesses[i]) > 1
    /\ \E i \in 1..Len(state.guess_log) :
           SubSeq(state.guess_log[i][1], 1, Len(MULTI_PREFIX)) = MULTI_PREFIX

\* C2: in every reachable state of a round, correct_letters is a subset of
\* the letters of the secret word.
Thm_C2 == InRound => state.correct_letters \subseteq set(state.word)

\* some letters revealed, some guessed letters wrong
Wit_C2 ==
    /\ InRound
    /\ state.correct_letters # {}
    /\ state.correct_letters # set(state.word)
    /\ state.guessed_letters \ state.correct_letters # {}

\* C3: in every state of a round, observed after the guess has been fully
\* processed, game_won holds exactly when every distinct letter of the secret
\* word is in correct_letters.
Thm_C3 == InRound => (state.game_won <=> set(state.word) \subseteq state.correct_letters)

\* a word with a repeated letter won letter by letter
Wit_C3 ==
    /\ InRound
    /\ state.game_won
    /\ Len(state.word) > Cardinality(set(state.word))
    /\ Len(Last(state.guess_log)[1]) = 1

\* C4 as stated: game_lost holds exactly when wrong_count >= 6 and the round
\* is not won, rounds ended by the quit token included.
Cex_C4 == InRound => (state.game_lost <=> (state.wrong_count >= 6 /\ ~state.game_won))

\* C4 amended: game_lost holds exactly when wrong_count >= max_wrong and the
\* round is not won, or the round was ended by the quit token.
Thm_C4 ==
    InRound => (state.game_lost <=>
                   \/ state.wrong_count >= state.max_wrong /\ ~state.game_won
                   \/ user_input = QUIT)

\* a round lost by a sixth wrong guess that is a wrong word
Wit_C4 ==
    /\ InRound
    /\ state.game_lost
    /\ user_input # QUIT
    /\ state.wrong_count = 6
    /\ Len(Last(state.wrong_guesses)) > 1

\* C5: game_won and game_lost are never both true, both are false when the
\* round starts, and once either is true no guess is read or processed any
\* more: the game state never changes again.
Thm_C5 ==
    /\ [](~(state.game_won /\ state.game_lost))
    /\ [][pc = "start" /\ pc' = "loop" => ~state'.game_won /\ ~state'.game_lost]_vars
    /\ [][state.game_won \/ state.game_lost => state' = state /\ user_input' = user_input]_vars

\* the round is over, won by a multi-letter guess that also took wrong_count
\* to max_wrong, and play_game has gone on to the stats
Wit_C5 ==
    /\ pc = "done"
    /\ state.game_won
    /\ state.wrong_count >= state.max_wrong

\* C6: at the end of a round the score is 0 when the round is not won and
\* max(0, len(word)*10 - wrong_count*5) when it is won, it is never negative,
\* and computing it leaves the game state as it was.
Thm_C6 ==
    /\ [](pc = "done" =>
            /\ score >= 0
            /\ ~state.game_won => score = 0
            /\ state.game_won =>
                 LET raw == Len(state.word) * 10 - state.wrong_count * 5 IN
                 score = IF raw > 0 THEN raw ELSE 0)
    /\ [][pc = "score" => state' = state]_vars

\* a won round whose penalty exceeds its base score
Wit_C6 ==
    /\ pc = "done"
    /\ state.game_won
    /\ Len(state.word) * 10 - state.wrong_count * 5 < 0
    /\ score = 0

\* C7: a single-letter guess of a letter already in guessed_letters changes
\* no field of the game state.
Thm_C7 ==
    [][(/\ GuessStep
        /\ Len(user_input') = 1
        /\ isalpha(user_input')
        /\ user_input'[1] \in state.guessed_letters) => state' = state]_vars

\* the last token read is a letter guessed earlier: it is in guessed_letters
\* and it is not what the last entry of guess_log records
Wit_C7 ==
    /\ pc = "loop"
    /\ Len(user_input) = 1
    /\ user_input[1] \in state.guessed_letters
    /\ state.wrong_count > 0
    /\ Last(state.guess_log)[1] # user_input

\* C8: a guess equal to the secret word sets game_won whatever wrong_count is,
\* leaves wrong_count and wrong_guesses unchanged, makes correct_letters the
\* set of the letters of the word and appends one entry with outcome true to
\* guess_log.
Thm_C8 ==
    [][(GuessStep /\ user_input' = state.word) =>
           /\ state'.game_won
           /\ state'.wrong_count = state.wrong_count
           /\ state'.wrong_guesses = state.wrong_guesses
           /\ state'.correct_letters = set(state.word)
           /\ Len(state'.guess_log) = Len(state.guess_log) + 1
           /\ SubSeq(state'.guess_log, 1, Len(state.guess_log)) = state.guess_log
           /\ Last(state'.guess_log)[2] = TRUE]_vars

\* the word guessed in full after wrong guesses, with letters not yet revealed
Wit_C8 ==
    /\ InRound
    /\ state.game_won
    /\ state.wrong_count >= 2
    /\ Last(state.guess_log) = <<WORD_PREFIX \o state.word, TRUE>>

\* C9: a token that is not made only of alphabetic characters (the empty
\* token included) leaves every field of the game state unchanged, and the
\* loop goes on.
Thm_C9 ==
    [][(GuessStep /\ ~isalpha(user_input')) => state' = state /\ pc' = "loop"]_vars

\* a token with a space inside was read after a guess had been recorded
Wit_C9 ==
    /\ pc = "loop"
    /\ user_input = <<"a", " ", "b">>
    /\ Len(state.guess_log) > 0

\* the four counters are non-negative and games_played = wins + losses
StatsOK(sts) ==
    /\ sts.games_played >= 0 /\ sts.wins >= 0 /\ sts.losses >= 0 /\ sts.total_score >= 0
    /\ sts.games_played = sts.wins + sts.losses

\* C10: at the end of a round games_played grows by 1, wins grows by 1 and
\* losses stays when the round is won, losses grows by 1 and wins stays
\* otherwise, total_score grows by the score of the round; so counters that
\* were non-negative with games_played = wins + losses stay so.
Thm_C10 ==
    [][pc = "score" =>
           /\ stats'.games_played = stats.games_played + 1
           /\ stats'.wins = stats.wins + (IF state.game_won THEN 1 ELSE 0)
           /\ stats'.losses = stats.losses + (IF state.game_won THEN 0 ELSE 1)
           /\ stats'.total_score = stats.total_score + score'
           /\ StatsOK(stats) => StatsOK(stats')]_vars

\* a won round with a positive score added to stats loaded from the file
Wit_C10 ==
    /\ pc = "done"
    /\ state.game_won
    /\ score > 0
    /\ stats.games_played = 4
    /\ stats.wins = 3
    /\ stats.total_score = 25 + score

\* C11 as stated: when the word source has no word, no round starts, the
\* stats stay as loaded and no exception leaves play_game.
Cex_C11 ==
    all_words = {} => /\ ~InRound
                      /\ stats \in LoadedStats
                      /\ pc # "raised"

\* a step of the game loop on the quit token
QuitStep == pc = "loop" /\ user_input' = QUIT

\* C12: the quit token in a non-terminal state sets game_lost and leaves
\* wrong_count, wrong_guesses, guessed_letters, correct_letters, guess_log
\* (and game_won) as they were; the round then scores 0 and counts as a loss.
Thm_C12 ==
    /\ [][QuitStep =>
            /\ ~state.game_won /\ ~state.game_lost
            /\ state'.game_lost
            /\ state'.game_won = state.game_won
            /\ state'.wrong_count = state.wrong_count
            /\ state'.wrong_guesses = state.wrong_guesses
            /\ state'.guessed_letters = state.guessed_letters
            /\ state'.correct_letters = state.correct_letters
            /\ state'.guess_log = state.guess_log]_vars
    /\ [][(pc = "score" /\ user_input = QUIT) =>
            /\ score' = 0
            /\ stats'.losses = stats.losses + 1
            /\ stats'.wins = stats.wins
            /\ stats'.total_score = stats.total_score]_vars

\* a round abandoned after right and wrong guesses, scored and counted
Wit_C12 ==
    /\ pc = "done"
    /\ user_input = QUIT
    /\ state.game_lost
    /\ state.correct_letters # {}
    /\ state.wrong_count \in 1..5
    /\ score = 0

\* a step of the game loop on an alphabetic token as long as the word, longer
\* than one letter: a full-word guess
FullWordStep ==
    /\ GuessStep
    /\ isalpha(user_input')
    /\ Len(user_input') = Len(state.word)
    /\ Len(user_input') > 1

\* C13: a full-word guess that is not the word adds exactly 1 to wrong_count
\* whatever its letters, appends the tagged token once to wrong_guesses and
\* one (tagged token, false) entry to guess_log, leaves guessed_letters and
\* correct_letters unchanged and sets game_lost exactly when the new
\* wrong_count is >= max_wrong; a repeated wrong word is counted again.
Thm_C13 ==
    [][(FullWordStep /\ user_input' # state.word) =>
           /\ state'.wrong_count = state.wrong_count + 1
           /\ state'.wrong_guesses = Append(state.wrong_guesses, WORD_PREFIX \o user_input')
           /\ state'.guess_log =
                  Append(state.guess_log, <<WORD_PREFIX \o user_input', FALSE>>)
           /\ state'.guessed_letters = state.guessed_letters
           /\ state'.correct_letters = state.correct_letters
           /\ ~state'.game_won
           /\ state'.game_lost <=> state'.wrong_count >= state'.max_wrong]_vars

\* the same wrong word, made of letters of the secret word, counted twice
Wit_C13 ==
    /\ InRound
    /\ Len(state.wrong_guesses) >= 2
    /\ state.wrong_guesses[1] = state.wrong_guesses[2]
    /\ state.wrong_guesses[1] = WORD_PREFIX \o <<"t", "i", "u", "q">>
    /\ state.word = QUIT
    /\ state.guessed_letters = {}

\* a step of the game loop on an alphabetic token that is neither one letter
\* nor as long as the word: a multi-letter guess
MultiStep ==
    /\ GuessStep
    /\ isalpha(user_input')
    /\ Len(user_input') # 1
    /\ Len(user_input') # Len(state.word)

\* handle_single_letter applied to the characters of letters from i on, in order
RECURSIVE single_letters_in_order(_, _, _)
single_letters_in_order(st, letters, i) ==
    IF i > Len(letters)
    THEN st
    ELSE single_letters_in_order(handle_single_letter(st, <<letters[i]>>), letters, i + 1)

\* C14: after a multi-letter guess, guessed_letters, correct_letters,
\* wrong_guesses and wrong_count are what handle_single_letter gives when it
\* is applied to the characters of the token one after another.
Thm_C14 ==
    [][MultiStep =>
           LET one_by_one == single_letters_in_order(state, user_input', 1) IN
           /\ state'.guessed_letters = one_by_one.guessed_letters
           /\ state'.correct_letters = one_by_one.correct_letters
           /\ state'.wrong_guesses = one_by_one.wrong_guesses
           /\ state'.wrong_count = one_by_one.wrong_count]_vars

\* the token "abti" on the word "a" after "b" was guessed: one character
\* already guessed, one right, two wrong
Wit_C14 ==
    /\ InRound
    /\ state.word = <<"a">>
    /\ Len(state.guess_log) = 2
    /\ state.guess_log[1] = << <<"b">>, FALSE >>
    /\ state.guess_log[2] = << MULTI_PREFIX \o <<"a", "b", "t", "i">>, TRUE >>
    /\ state.wrong_count = 3

\* C15: a multi-letter guess appends exactly one entry to guess_log, keyed by
\* the whole (tagged) token, true exactly when some character of the token
\* was not guessed before and is in the word.
Thm_C15 ==
    [][MultiStep =>
           state'.guess_log =
               Append(state.guess_log,
                      << MULTI_PREFIX \o user_input',
                         \E i \in 1..Len(user_input') :
                             /\ user_input'[i] \notin state.guessed_letters
                             /\ user_input'[i] \in set(state.word) >>)]_vars

\* the token "aa" after "a" was guessed on the word "aba": a letter of the
\* word, but not a new one, so the entry is false
Wit_C15 ==
    /\ InRound
    /\ state.word = <<"a", "b", "a">>
    /\ "a" \in state.correct_letters
    /\ Len(state.guess_log) >= 2
    /\ Last(state.guess_log) = << MULTI_PREFIX \o <<"a", "a">>, FALSE >>

\* C16: after a multi-letter guess the round is won exactly when the letters
\* of the word are complete, whatever wrong_count has become, and lost
\* exactly when they are not complete and wrong_count >= max_wrong.
Thm_C16 ==
    [][MultiStep =>
           /\ state'.game_won <=> set(state.word) \subseteq state'.correct_letters
           /\ state'.game_lost <=>
                 /\ ~(set(state.word) \subseteq state'.correct_letters)
                 /\ state'.wrong_count >= state'.max_wrong]_vars

\* a multi-letter guess that completed the word and took wrong_count from
\* below max_wrong to max_wrong or more: the round is won
Wit_C16 ==
    /\ pc = "score"
    /\ state.game_won /\ ~state.game_lost
    /\ state.wrong_count >= state.max_wrong
    /\ SubSeq(Last(state.guess_log)[1], 1, Len(MULTI_PREFIX)) = MULTI_PREFIX

\* seq is old with exactly one entry appended
OneAppended(old, seq) == Len(seq) = Len(old) + 1 /\ SubSeq(seq, 1, Len(old)) = old

\* C17 as stated: guess_log never loses or alters an entry, and every
\* alphabetic token passed to process_guess appends exactly one entry.
Cex_C17 ==
    /\ [][InRound => SubSeq(state'.guess_log, 1, Len(state.guess_log)) = state.guess_log]_vars
    /\ [][(GuessStep /\ isalpha(user_input')) =>
              OneAppended(state.guess_log, state'.guess_log)]_vars

\* the token is one letter that is already in guessed_letters
RepeatedLetter(st, token) == Len(token) = 1 /\ token[1] \in st.guessed_letters

\* C17 amended: guess_log never loses or alters an entry, and every
\* alphabetic token passed to process_guess appends exactly one entry, except
\* a single letter already in guessed_letters, which appends none.
Thm_C17 ==
    /\ [][InRound => SubSeq(state'.guess_log, 1, Len(state.guess_log)) = state.guess_log]_vars
    /\ [][(GuessStep /\ isalpha(user_input')) =>
              IF RepeatedLetter(state, user_input')
              THEN state'.guess_log = state.guess_log
              ELSE OneAppended(state.guess_log, state'.guess_log)]_vars

\* the letter "a" read again after a multi-letter token of letters all
\* guessed before: the token has its entry, the repeated letter has none
Wit_C17 ==
    /\ pc = "loop"
    /\ state.word = <<"a", "b", "a">>
    /\ user_input = <<"a">>
    /\ state.guess_log = << << <<"a">>, TRUE >>,
                            << MULTI_PREFIX \o <<"a", "a">>, FALSE >> >>

\* the token is alphabetic and not made only of letters already guessed
FreshToken(st, token) ==
    isalpha(token) /\ \E i \in 1..Len(token) : token[i] \notin st.guessed_letters

\* C18 as stated: the loop is left at the first state where game_won or
\* game_lost holds, and every guess that is neither invalid nor made only of
\* letters already guessed strictly grows guessed_letters or increases
\* wrong_count.
Cex_C18 ==
    /\ [](pc = "loop" => ~state.game_won /\ ~state.game_lost)
    /\ [][(GuessStep /\ FreshToken(state, user_input')) =>
              \/ /\ state.guessed_letters \subseteq state'.guessed_letters
                 /\ state.guessed_letters # state'.guessed_letters
              \/ state'.wrong_count > state.wrong_count]_vars

\* C19 as stated: wrong_count stays between 0 and max_wrong (6), so the
\* remaining attempts max_wrong - wrong_count are never negative, and
\* wrong_count never decreases.
Cex_C19 ==
    /\ [](InRound => /\ state.wrong_count \in 0..6
                     /\ state.max_wrong - state.wrong_count >= 0)
    /\ [][InRound => state'.wrong_count >= state.wrong_count]_vars

\* C19 amended: wrong_count is never negative and never decreases; it is
\* below max_wrong whenever the loop shows the state and reads a guess, and
\* at most max_wrong at the end of the round unless the last guess recorded
\* is a multi-letter guess.
Thm_C19 ==
    /\ [](InRound =>
            /\ state.max_wrong = 6
            /\ state.wrong_count >= 0
            /\ pc = "loop" => state.max_wrong - state.wrong_count > 0
            /\ state.wrong_count > state.max_wrong =>
                   SubSeq(Last(state.guess_log)[1], 1, Len(MULTI_PREFIX)) = MULTI_PREFIX)
    /\ [][InRound => state'.wrong_count >= state.wrong_count]_vars

\* a lost round whose last multi-letter guess took wrong_count past max_wrong:
\* the log file shows negative remaining attempts
Wit_C19 ==
    /\ pc = "done"
    /\ state.game_lost
    /\ state.max_wrong - state.wrong_count < 0

\* C20 as stated: guessed_letters only grows, and every single letter of
\* wrong_guesses is in it, also after a winning full-word guess.
Cex_C20 ==
    /\ [](InRound => \A i \in 1..Len(state.wrong_guesses) :
                         Len(state.wrong_guesses[i]) = 1 =>
                             state.wrong_guesses[i][1] \in state.guessed_letters)
    /\ [][InRound => state.guessed_letters \subseteq state'.guessed_letters]_vars

\* C21: in every reachable state of a round, correct_letters is exactly the
\* guessed letters that are in the secret word.
Thm_C21 ==
    InRound => state.correct_letters = state.guessed_letters \cap set(state.word)

\* the word won by a full-word guess when only one of its letters, and a
\* wrong letter, had been guessed
Wit_C21 ==
    /\ InRound
    /\ state.word = <<"a", "b", "a">>
    /\ state.guess_log = << << <<"x">>, FALSE >>,
                            << <<"a">>, TRUE >>,
                            << WORD_PREFIX \o state.word, TRUE >> >>
    /\ state.correct_letters = {"a", "b"}

\* C22 as stated: in a non-terminal state of the game loop, the secret word
\* read as the next token ends the round won, with wrong_count unchanged,
\* whatever the word is.
Cex_C22 ==
    [][(pc = "loop" /\ user_input' = state.word) =>
           /\ pc' = "score"
           /\ state'.game_won /\ ~state'.game_lost
           /\ state'.wrong_count = state.wrong_count]_vars

====
